---------------------------- MODULE Spec2Model ----------------------------
(***************************************************************************)
(* Model of scripts/apply_theme.py (Auralis theme propagator).             *)
(*                                                                         *)
(* Text is modelled as a sequence of chunks.  A chunk is a short string:   *)
(* single characters where the code looks at characters (hex digits, '#',  *)
(* white space, line breaks) and whole words elsewhere ("accent:",         *)
(* "primary", "-bright", "rgba(", ...).  Python's string operations are    *)
(* computed chunk by chunk on these sequences.                             *)
(***************************************************************************)
EXTENDS Integers, Sequences, FiniteSets, TLC

VARIABLES
    \* colour functions applied to one input
    cin, cpc, cnorm, crgba, clight, ctheme,
    \* one call of parse_args + load_theme
    rcli, rtoml, rargs, rres, rpc,
    \* update_line_with_accent applied to one line
    lline, ltheme, lout, lpc,
    \* apply_accent on one file, line by line
    afile, aorig, atheme, alines, ai, apending, achanged, apc,
    \* update_waybar_floating run repeatedly on one stylesheet
    wtree, wbefore, wtheme, wupdated, wruns, wstart, wallOn,
    \* runs of main: theme.toml, the file tree, the run in progress, and what
    \* earlier runs were given
    mtoml, mtree, mcli, mres, mupdated, mpc, mruns, mstart, mprev, mbright, mhadUi,
    mwrote

colourVars == <<cin, cpc, cnorm, crgba, clight, ctheme>>
resolveVars == <<rcli, rtoml, rargs, rres, rpc>>
lineVars == <<lline, ltheme, lout, lpc>>
accentVars == <<afile, aorig, atheme, alines, ai, apending, achanged, apc>>
cssVars == <<wtree, wbefore, wtheme, wupdated, wruns, wstart, wallOn>>
mainVars ==
    <<mtoml, mtree, mcli, mres, mupdated, mpc, mruns, mstart, mprev, mbright, mhadUi, mwrote>>
vars == <<colourVars, resolveVars, lineVars, accentVars, cssVars, mainVars>>

-----------------------------------------------------------------------------
(* Python values *)

None == [some |-> FALSE]
Some(v) == [some |-> TRUE, v |-> v]

\* dict.get(key): None when the key is absent
Get(d, k) == IF k \in DOMAIN d THEN Some(d[k]) ELSE None

\* dict.get(key, default)
GetOr(d, k, default) == IF k \in DOMAIN d THEN d[k] ELSE default

\* `a or b` on str | None operands: None and "" are falsy
PyOr(a, b) == IF a.some /\ a.v # <<>> THEN a ELSE b

\* `a if a is not None else b`
IfNotNone(a, b) == IF a.some THEN a.v ELSE b

-----------------------------------------------------------------------------
(* Characters *)

HexChars == <<"0", "1", "2", "3", "4", "5", "6", "7",
              "8", "9", "a", "b", "c", "d", "e", "f">>

\* str.lower(), one chunk
LowerChunk(c) ==
    CASE c = "A" -> "a" [] c = "B" -> "b" [] c = "C" -> "c"
      [] c = "D" -> "d" [] c = "E" -> "e" [] c = "F" -> "f"
      [] c = "TRUE" -> "true" [] c = "True" -> "true" [] c = "YES" -> "yes"
      [] c = "NO" -> "no" [] c = "False" -> "false"
      [] c = "ACCENT:" -> "accent:" [] c = "PRIMARY" -> "primary"
      [] OTHER -> c

\* str.lower()
Lower(s) == [i \in 1..Len(s) |-> LowerChunk(s[i])]

\* [0-9a-fA-F]
IsHexDigit(c) == \E i \in 1..16 : HexChars[i] = LowerChunk(c)

\* white space: "    " is the four-space indent update_waybar_floating writes
IsSpace(c) == c \in {" ", "    ", "\t", "\n", "\r"}

RECURSIVE LStrip(_)
LStrip(s) == IF s # <<>> /\ IsSpace(s[1]) THEN LStrip(Tail(s)) ELSE s

RECURSIVE RStrip(_)
RStrip(s) ==
    IF s # <<>> /\ IsSpace(s[Len(s)]) THEN RStrip(SubSeq(s, 1, Len(s) - 1)) ELSE s

\* str.strip()
Strip(s) == RStrip(LStrip(s))

\* str.lstrip('#')
RECURSIVE LStripHash(_)
LStripHash(s) == IF s # <<>> /\ s[1] = "#" THEN LStripHash(Tail(s)) ELSE s

\* the text of a chunk sequence as one string
RECURSIVE Str(_)
Str(s) == IF s = <<>> THEN "" ELSE s[1] \o Str(Tail(s))

-----------------------------------------------------------------------------
(* Colour functions *)

\* the {6} of HEX_PATTERN
HexLen == 6

\* re.match in place of re.fullmatch: text after the six digits is accepted
HexPrefixMatch(s) ==
    /\ Len(s) >= HexLen + 1
    /\ s[1] = "#"
    /\ \A i \in 2..(HexLen + 1) : IsHexDigit(s[i])

\* HEX_PATTERN.fullmatch(s)
HexFullMatch(s) ==
    /\ Len(s) = HexLen + 1
    /\ s[1] = "#"
    /\ \A i \in 2..(HexLen + 1) : IsHexDigit(s[i])

\* normalize_hex without .lower()
NormalizeHexLoose(value) ==
    LET s0 == Strip(value)
        s  == IF s0 # <<>> /\ s0[1] = "#" THEN s0 ELSE <<"#">> \o s0
    IN  IF HexFullMatch(s) THEN [ok |-> TRUE, v |-> s] ELSE [ok |-> FALSE, v |-> value]

\* normalize_hex: [ok |-> FALSE] stands for the ValueError it raises
NormalizeHex(value) ==
    LET s0 == Lower(Strip(value))
        s  == IF s0 # <<>> /\ s0[1] = "#" THEN s0 ELSE <<"#">> \o s0
    IN  IF HexFullMatch(s) THEN [ok |-> TRUE, v |-> s] ELSE [ok |-> FALSE, v |-> value]

\* hex_to_rgba
HexToRgba(hex_value) == <<"rgba(">> \o LStripHash(hex_value) \o <<"f", "f", ")">>

\* int(c, 16) of one digit
HexVal(c) == (CHOOSE i \in 1..16 : HexChars[i] = LowerChunk(c)) - 1

\* int(base[i : i + 2], 16)
Channel(base, i) == 16 * HexVal(base[i]) + HexVal(base[i + 1])

\* f"{c:02x}"
Hex2(c) == <<HexChars[(c \div 16) + 1], HexChars[(c % 16) + 1]>>

Min(a, b) == IF a < b THEN a ELSE b

\* the largest value of a channel
MaxChannel == 255

\* int() in place of round(): the fraction is cut off
LightenChannelTruncated(ch) == Min(MaxChannel, (8 * ch + 510) \div 10)

\* min(255, round(ch + (255 - ch) * 0.2)): the value is (4 ch + 255) / 5, whose
\* fraction is a multiple of 1/5, so rounding to nearest is floor(x + 1/2)
LightenChannel(ch) == Min(MaxChannel, (8 * ch + 515) \div 10)

\* lighten(hex_value) with the default factor
Lighten(hex_value) ==
    LET n == NormalizeHex(hex_value)
    IN  IF ~n.ok THEN [ok |-> FALSE, v |-> hex_value]
        ELSE [ok |-> TRUE,
              v  |-> <<"#">> \o Hex2(LightenChannel(Channel(n.v, 2)))
                            \o Hex2(LightenChannel(Channel(n.v, 4)))
                            \o Hex2(LightenChannel(Channel(n.v, 6)))]

-----------------------------------------------------------------------------
(* Resolved settings: load_theme *)

DefaultPrimary == <<"#", "7", "d", "d", "6", "f", "6">>
DefaultTertiary == <<"#", "6", "6", "c", "c", "6", "6">>
DefaultQuaternary == <<"#", "e", "6", "5", "c", "5", "c">>
DefaultQuinary == <<"#", "f", "f", "c", "c", "6", "6">>
DefaultRounding == 10
DefaultWaybarFloating == TRUE
DefaultWaybarBorderRadius == 12
DefaultWaybarPadding == <<"3px 4px">>
DefaultWaybarMargin == <<"4px 6px">>

\* the keys update_theme_file writes into [accent] and load_theme reads
AccentKeys == {"primary", "primary_bright", "secondary", "secondary_bright",
               "tertiary", "tertiary_bright", "quaternary", "quaternary_bright",
               "quinary", "quinary_bright"}

UiKeys == {"rounding", "waybar_floating", "waybar_border_radius",
           "waybar_padding", "waybar_margin"}

Raise(e) == [ok |-> FALSE, err |-> e]

\* the stored value wins over the override
ResolveColourStoredFirst(override, acc, key, default) ==
    NormalizeHex(PyOr(Get(acc, key), PyOr(override, Some(default))).v)

\* `override or acc.get(key) or default`, then normalize_hex
ResolveColour(override, acc, key, default) ==
    NormalizeHex(PyOr(override, PyOr(Get(acc, key), Some(default))).v)

\* `override if override is not None else ui.get(key, default)`
ResolveUi(override, ui, key, default) ==
    IfNotNone(override, GetOr(ui, key, default))

\* theme.toml as tomllib reads it: data.get("accent", {}) and data.get("ui", {})
TomlAccent(toml) == toml.acc
TomlUi(toml) == IF toml.hasUi THEN toml.ui ELSE <<>>

LoadTheme(accent_override, bright_override, secondary_override, secondary_bright_override, tertiary_override, tertiary_bright_override, quaternary_override, quaternary_bright_override, quinary_override, quinary_bright_override, rounding_override, waybar_floating_override, waybar_border_radius_override, waybar_padding_override, waybar_margin_override, toml) ==
    IF ~toml.exists THEN Raise("FileNotFoundError")
    ELSE IF ~toml.wellFormed THEN Raise("TOMLDecodeError")
    ELSE
    LET acc == TomlAccent(toml)
        ui  == TomlUi(toml)
        primary == ResolveColour(accent_override, acc, "primary", DefaultPrimary)
        bright == ResolveColour(bright_override, acc, "primary_bright",
                                Lighten(primary.v).v)
        secondary == ResolveColour(secondary_override, acc, "secondary", primary.v)
        secondary_bright ==
            ResolveColour(secondary_bright_override, acc, "secondary_bright",
                          Lighten(secondary.v).v)
        tertiary == ResolveColour(tertiary_override, acc, "tertiary", DefaultTertiary)
        tertiary_bright ==
            ResolveColour(tertiary_bright_override, acc, "tertiary_bright",
                          Lighten(tertiary.v).v)
        quaternary ==
            ResolveColour(quaternary_override, acc, "quaternary", DefaultQuaternary)
        quaternary_bright ==
            ResolveColour(quaternary_bright_override, acc, "quaternary_bright",
                          Lighten(quaternary.v).v)
        quinary == ResolveColour(quinary_override, acc, "quinary", DefaultQuinary)
        quinary_bright ==
            ResolveColour(quinary_bright_override, acc, "quinary_bright",
                          Lighten(quinary.v).v)
    IN  IF \/ ~primary.ok \/ ~bright.ok
           \/ ~secondary.ok \/ ~secondary_bright.ok
           \/ ~tertiary.ok \/ ~tertiary_bright.ok
           \/ ~quaternary.ok \/ ~quaternary_bright.ok
           \/ ~quinary.ok \/ ~quinary_bright.ok
        THEN Raise("ValueError")
        ELSE [ok |-> TRUE, theme |-> [
            primary |-> primary.v,
            primary_bright |-> bright.v,
            primary_rgba |-> HexToRgba(primary.v),
            secondary |-> secondary.v,
            secondary_rgba |-> HexToRgba(secondary.v),
            secondary_bright |-> secondary_bright.v,
            secondary_bright_rgba |-> HexToRgba(secondary_bright.v),
            tertiary |-> tertiary.v,
            tertiary_rgba |-> HexToRgba(tertiary.v),
            tertiary_bright |-> tertiary_bright.v,
            tertiary_bright_rgba |-> HexToRgba(tertiary_bright.v),
            quaternary |-> quaternary.v,
            quaternary_rgba |-> HexToRgba(quaternary.v),
            quaternary_bright |-> quaternary_bright.v,
            quaternary_bright_rgba |-> HexToRgba(quaternary_bright.v),
            quinary |-> quinary.v,
            quinary_rgba |-> HexToRgba(quinary.v),
            quinary_bright |-> quinary_bright.v,
            quinary_bright_rgba |-> HexToRgba(quinary_bright.v),
            rounding |-> ResolveUi(rounding_override, ui, "rounding", DefaultRounding),
            waybar_floating |->
                ResolveUi(waybar_floating_override, ui, "waybar_floating",
                          DefaultWaybarFloating),
            waybar_border_radius |->
                ResolveUi(waybar_border_radius_override, ui, "waybar_border_radius",
                          DefaultWaybarBorderRadius),
            waybar_padding |->
                ResolveUi(waybar_padding_override, ui, "waybar_padding",
                          DefaultWaybarPadding),
            waybar_margin |->
                ResolveUi(waybar_margin_override, ui, "waybar_margin",
                          DefaultWaybarMargin)]]

-----------------------------------------------------------------------------
(* Command line: parse_args *)

TruthyTokens == {<<"true">>, <<"1">>, <<"yes">>}

\* the argparse destinations of the colour flags, by the theme.toml key each overrides
CliColourDest == [primary |-> "accent", primary_bright |-> "accent_bright",
                  secondary |-> "accent_secondary",
                  secondary_bright |-> "accent_secondary_bright",
                  tertiary |-> "accent_tertiary",
                  tertiary_bright |-> "accent_tertiary_bright",
                  quaternary |-> "accent_quaternary",
                  quaternary_bright |-> "accent_quaternary_bright",
                  quinary |-> "accent_quinary",
                  quinary_bright |-> "accent_quinary_bright"]

\* a text that is no truthy token counts as a flag that was not passed
ParseFloatingUnrecognizedAsAbsent(x) ==
    IF ~x.some THEN None
    ELSE IF Lower(x.v) \in TruthyTokens THEN Some(TRUE) ELSE None

\* --waybar-floating: type=lambda x: x.lower() in {"true", "1", "yes"}
ParseFloating(x) == IF x.some THEN Some(Lower(x.v) \in TruthyTokens) ELSE None

\* parse_args: the namespace of a command line; a flag that is not passed is None
ParseArgs(cli) == [cli EXCEPT !.waybar_floating = ParseFloating(@)]

\* main's call of load_theme
LoadThemeFromArgs(args, toml) ==
    LoadTheme(args.accent, args.accent_bright, args.accent_secondary,
              args.accent_secondary_bright, args.accent_tertiary,
              args.accent_tertiary_bright, args.accent_quaternary,
              args.accent_quaternary_bright, args.accent_quinary,
              args.accent_quinary_bright, args.rounding, args.waybar_floating,
              args.waybar_border_radius, args.waybar_padding, args.waybar_margin,
              toml)

-----------------------------------------------------------------------------
(* Accent propagation *)

\* the {8} of RGBA_PATTERN
RgbaLen == 8

\* ACCENT_MARKERS: (marker, Theme attribute), in the order they are tried
AccentMarkers == <<
    <<<<"accent:", "primary", "-rgba">>, <<"primary", "_rgba">>>>,
    <<<<"accent:", "primary", "-bright">>, <<"primary", "_bright">>>>,
    <<<<"accent:", "primary">>, <<"primary">>>>,
    <<<<"accent:", "secondary", "-bright", "-rgba">>, <<"secondary", "_bright", "_rgba">>>>,
    <<<<"accent:", "secondary", "-bright">>, <<"secondary", "_bright">>>>,
    <<<<"accent:", "secondary", "-rgba">>, <<"secondary", "_rgba">>>>,
    <<<<"accent:", "secondary">>, <<"secondary">>>>,
    <<<<"accent:", "tertiary", "-bright", "-rgba">>, <<"tertiary", "_bright", "_rgba">>>>,
    <<<<"accent:", "tertiary", "-bright">>, <<"tertiary", "_bright">>>>,
    <<<<"accent:", "tertiary", "-rgba">>, <<"tertiary", "_rgba">>>>,
    <<<<"accent:", "tertiary">>, <<"tertiary">>>>,
    <<<<"accent:", "quaternary", "-bright", "-rgba">>, <<"quaternary", "_bright", "_rgba">>>>,
    <<<<"accent:", "quaternary", "-bright">>, <<"quaternary", "_bright">>>>,
    <<<<"accent:", "quaternary", "-rgba">>, <<"quaternary", "_rgba">>>>,
    <<<<"accent:", "quaternary">>, <<"quaternary">>>>,
    <<<<"accent:", "quinary", "-bright", "-rgba">>, <<"quinary", "_bright", "_rgba">>>>,
    <<<<"accent:", "quinary", "-bright">>, <<"quinary", "_bright">>>>,
    <<<<"accent:", "quinary", "-rgba">>, <<"quinary", "_rgba">>>>,
    <<<<"accent:", "quinary">>, <<"quinary">>>>
>>

SetMin(S) == CHOOSE x \in S : \A y \in S : x <= y

\* `pat in s`
Contains(s, pat) ==
    \E i \in 1..(Len(s) - Len(pat) + 1) : SubSeq(s, i, i + Len(pat) - 1) = pat

\* ACCENT_MAP: every marker and every token (marker.split(":", 1)[1]) to its attribute
AccentMapKeys ==
    {AccentMarkers[i][1] : i \in 1..Len(AccentMarkers)}
        \cup {Tail(AccentMarkers[i][1]) : i \in 1..Len(AccentMarkers)}

AccentMap(t) ==
    LET i == CHOOSE i \in 1..Len(AccentMarkers) :
                 t \in {AccentMarkers[i][1], Tail(AccentMarkers[i][1])}
    IN  AccentMarkers[i][2]

\* key.endswith("_rgba")
EndsWithRgba(key) == key[Len(key)] = "_rgba"

\* getattr(theme, key)
GetAttr(theme, key) == theme[Str(key)]

NoMatch == [found |-> FALSE, a |-> 0, b |-> 0]

\* HEX_PATTERN.search(line): the span of the leftmost '#' followed by six hex digits
HexSearch(line) ==
    LET P == {i \in 1..(Len(line) - HexLen) :
                 line[i] = "#" /\ \A j \in 1..HexLen : IsHexDigit(line[i + j])}
    IN  IF P = {} THEN NoMatch
        ELSE [found |-> TRUE, a |-> SetMin(P), b |-> SetMin(P) + HexLen]

\* RGBA_PATTERN.search(line): the leftmost "rgba(" + eight hex digits + ")"
RgbaSearch(line) ==
    LET P == {i \in 1..(Len(line) - RgbaLen - 1) :
                 /\ line[i] = "rgba("
                 /\ \A j \in 1..RgbaLen : IsHexDigit(line[i + j])
                 /\ line[i + RgbaLen + 1] = ")"}
    IN  IF P = {} THEN NoMatch
        ELSE [found |-> TRUE, a |-> SetMin(P), b |-> SetMin(P) + RgbaLen + 1]

PatternSearch(pattern, line) ==
    IF pattern = "RGBA_PATTERN" THEN RgbaSearch(line) ELSE HexSearch(line)

\* replace_first of update_accent.py: no comparison with the existing literal
ReplaceFirstAlwaysChanged(pattern, line, replacement) ==
    LET m == PatternSearch(pattern, line)
    IN  IF ~m.found THEN [line |-> line, changed |-> FALSE]
        ELSE [line |-> SubSeq(line, 1, m.a - 1) \o replacement
                          \o SubSeq(line, m.b + 1, Len(line)),
              changed |-> TRUE]

\* replace_first
ReplaceFirst(pattern, line, replacement) ==
    LET m == PatternSearch(pattern, line)
    IN  IF ~m.found THEN [line |-> line, changed |-> FALSE]
        ELSE IF SubSeq(line, m.a, m.b) = replacement
             THEN [line |-> line, changed |-> FALSE]
        ELSE [line |-> SubSeq(line, 1, m.a - 1) \o replacement
                          \o SubSeq(line, m.b + 1, Len(line)),
              changed |-> TRUE]

\* update_line_with_accent: the first marker of the table found in the line decides
UpdateLineWithAccent(line, theme) ==
    LET hits == {i \in 1..Len(AccentMarkers) : Contains(line, AccentMarkers[i][1])}
    IN  IF hits = {} THEN [line |-> line, changed |-> FALSE]
        ELSE LET key == AccentMarkers[SetMin(hits)][2]
             IN  ReplaceFirst(IF EndsWithRgba(key) THEN "RGBA_PATTERN" ELSE "HEX_PATTERN",
                              line, GetAttr(theme, key))

\* ACCENT_MARKERS of update_accent.py
UpdateAccentMarkers == <<
    <<<<"accent:", "primary", "-rgba">>, <<"primary", "_rgba">>>>,
    <<<<"accent:", "primary", "-bright">>, <<"primary", "_bright">>>>,
    <<<<"accent:", "primary">>, <<"primary">>>>
>>

\* the colours dict load_palette of update_accent.py returns, for a palette
Palette(theme) ==
    [primary |-> theme.primary, primary_bright |-> theme.primary_bright,
     primary_rgba |-> theme.primary_rgba]

\* update_line of update_accent.py
UpdateLine(line, colours) ==
    LET hits == {i \in 1..Len(UpdateAccentMarkers) :
                    Contains(line, UpdateAccentMarkers[i][1])}
    IN  IF hits = {} THEN [line |-> line, changed |-> FALSE]
        ELSE LET key == UpdateAccentMarkers[SetMin(hits)][2]
             IN  ReplaceFirstAlwaysChanged(
                     IF Str(key) = "primary_rgba" THEN "RGBA_PATTERN" ELSE "HEX_PATTERN",
                     line, colours[Str(key)])

\* chunks made of [a-z0-9_-] only, whatever the letter case
IsTokenChunk(c) ==
    \/ IsHexDigit(c)
    \/ LowerChunk(c) \in {"primary", "secondary", "tertiary", "quaternary", "quinary",
                          "-bright", "-rgba", "foo"}

\* the first index from j on that holds no white space
RECURSIVE SkipSpace(_, _)
SkipSpace(line, j) ==
    IF j <= Len(line) /\ IsSpace(line[j]) THEN SkipSpace(line, j + 1) ELSE j

\* the last index of the run of token chunks that starts at j
RECURSIVE TokenEnd(_, _)
TokenEnd(line, j) ==
    IF j + 1 <= Len(line) /\ IsTokenChunk(line[j + 1]) THEN TokenEnd(line, j + 1) ELSE j

\* re.search(r"(^|\s)#\s*accent:([a-z0-9_-]+)", line, re.IGNORECASE): group 2 of the
\* leftmost match
StandaloneSearch(line) ==
    LET P == {i \in 1..Len(line) :
                 /\ line[i] = "#"
                 /\ i = 1 \/ IsSpace(line[i - 1])
                 /\ LET j == SkipSpace(line, i + 1)
                    IN  /\ j + 1 <= Len(line)
                        /\ LowerChunk(line[j]) = "accent:"
                        /\ IsTokenChunk(line[j + 1])}
    IN  IF P = {} THEN [found |-> FALSE, token |-> <<>>]
        ELSE LET j == SkipSpace(line, SetMin(P) + 1)
             IN  [found |-> TRUE, token |-> SubSeq(line, j + 1, TokenEnd(line, j + 1))]

\* the pending marker is kept until a line is actually rewritten
LineStepConsumeOnChange(line, pending, theme) ==
    LET inline == UpdateLineWithAccent(line, theme)
        m == StandaloneSearch(line)
        has_hex == HexSearch(line).found
        has_rgba == RgbaSearch(line).found
    IN  IF inline.changed
        THEN [line |-> inline.line, altered |-> TRUE, pending |-> None]
        ELSE IF m.found /\ ~has_hex /\ ~has_rgba
        THEN [line |-> line, altered |-> FALSE,
              pending |-> IF Lower(m.token) \in AccentMapKeys
                          THEN Some(Lower(m.token)) ELSE pending]
        ELSE IF pending.some /\ (has_hex \/ has_rgba)
        THEN LET key == AccentMap(pending.v)
                 r == ReplaceFirst(IF EndsWithRgba(key) THEN "RGBA_PATTERN"
                                   ELSE "HEX_PATTERN", line, GetAttr(theme, key))
             IN  [line |-> r.line, altered |-> r.changed,
                  pending |-> IF r.changed THEN None ELSE pending]
        ELSE [line |-> line, altered |-> FALSE, pending |-> pending]

\* the body of apply_accent's loop over the lines of one file, for one line:
\* the line as it is left, whether it was rewritten, and the pending marker after it
LineStep(line, pending, theme) ==
    LET inline == UpdateLineWithAccent(line, theme)
        m == StandaloneSearch(line)
        has_hex == HexSearch(line).found
        has_rgba == RgbaSearch(line).found
    IN  IF inline.changed
        THEN [line |-> inline.line, altered |-> TRUE, pending |-> None]
        ELSE IF m.found /\ ~has_hex /\ ~has_rgba
        THEN [line |-> line, altered |-> FALSE,
              pending |-> IF Lower(m.token) \in AccentMapKeys
                          THEN Some(Lower(m.token)) ELSE pending]
        ELSE IF pending.some /\ (has_hex \/ has_rgba)
        THEN LET key == AccentMap(pending.v)
                 r == ReplaceFirst(IF EndsWithRgba(key) THEN "RGBA_PATTERN"
                                   ELSE "HEX_PATTERN", line, GetAttr(theme, key))
             IN  [line |-> r.line, altered |-> r.changed, pending |-> None]
        ELSE [line |-> line, altered |-> FALSE, pending |-> pending]

\* str.splitlines(): the lines without their line breaks; "\r\n" is one break and a
\* form feed is a break too
RECURSIVE SplitFrom(_, _, _)
SplitFrom(text, i, cur) ==
    IF i > Len(text) THEN (IF cur = <<>> THEN <<>> ELSE <<cur>>)
    ELSE IF text[i] = "\r" /\ i + 1 <= Len(text) /\ text[i + 1] = "\n"
         THEN <<cur>> \o SplitFrom(text, i + 2, <<>>)
    ELSE IF text[i] \in {"\n", "\r", "\f"} THEN <<cur>> \o SplitFrom(text, i + 1, <<>>)
    ELSE SplitFrom(text, i + 1, Append(cur, text[i]))

SplitLines(text) == SplitFrom(text, 1, <<>>)

\* "\n".join(lines)
RECURSIVE JoinLines(_)
JoinLines(lines) ==
    IF lines = <<>> THEN <<>>
    ELSE IF Len(lines) = 1 THEN lines[1]
    ELSE lines[1] \o <<"\n">> \o JoinLines(Tail(lines))

\* text.endswith("\n")
EndsWithNewline(text) == text # <<>> /\ text[Len(text)] = "\n"

\* a final line break is written whatever the text read ended with
WrittenTextAlwaysNewline(lines, text) == JoinLines(lines) \o <<"\n">>

\* the text apply_accent writes for the scanned lines of a file
WrittenText(lines, text) ==
    JoinLines(lines) \o (IF EndsWithNewline(text) THEN <<"\n">> ELSE <<>>)

\* the loop of apply_accent over lines[i..], from the given loop state
RECURSIVE ScanLines(_, _, _, _, _)
ScanLines(lines, i, pending, changed, theme) ==
    IF i > Len(lines) THEN [lines |-> lines, changed |-> changed]
    ELSE LET After(r) == ScanLines([lines EXCEPT ![i] = r.line], i + 1, r.pending,
                                   changed \/ r.altered, theme)
         IN  After(LineStep(lines[i], pending, theme))

SkipSuffixes == {".png", ".jpg", ".jpeg", ".gif"}

\* iter_theme_files: the files of the tree apply_accent reads
IterThemeFiles(tree) == {n \in DOMAIN tree : tree[n].suffix \notin SkipSuffixes}

\* apply_accent on one file: the file as it is left, and whether it was written
ApplyAccentToFile(file, theme) ==
    IF ~file.utf8 \/ ~Contains(file.text, <<"accent:">>)
    THEN [file |-> file, written |-> FALSE]
    ELSE LET After(r) ==
                 IF r.changed
                 THEN [file |-> [file EXCEPT !.text = WrittenText(r.lines, file.text)],
                       written |-> TRUE]
                 ELSE [file |-> file, written |-> FALSE]
         IN  After(ScanLines(SplitLines(file.text), 1, None, FALSE, theme))

-----------------------------------------------------------------------------
(* UI updates *)

\* \d+: the decimal text of a natural number, one chunk
IsDigits(c) == c \in {ToString(n) : n \in 0..99}

\* where r"(rounding\s*=\s*)\d+(\s*#\s*config:rounding)" matches from chunk i: the
\* index of the \d+ chunk, or 0
RoundingMatchAt(text, i) ==
    IF text[i] # "rounding" THEN 0
    ELSE LET j1 == SkipSpace(text, i + 1)
             j2 == SkipSpace(text, j1 + 1)
             j3 == SkipSpace(text, j2 + 1)
             j4 == SkipSpace(text, j3 + 1)
         IN  IF /\ j4 <= Len(text)
                /\ text[j1] = "="
                /\ IsDigits(text[j2])
                /\ text[j3] = "#"
                /\ text[j4] = "config:rounding"
             THEN j2 ELSE 0

\* the \d+ chunks of all matches of the pattern
RoundingMatches(text) ==
    {RoundingMatchAt(text, i) : i \in 1..Len(text)} \ {0}

\* ensure_hypr_rounding: the tree as it is left and the list it returns
EnsureHyprRounding(tree, rounding) ==
    IF "hyprland.conf" \notin DOMAIN tree THEN [tree |-> tree, updated |-> <<>>]
    ELSE LET text == tree["hyprland.conf"].text
             M == RoundingMatches(text)
             new == [i \in 1..Len(text) |->
                        IF i \in M THEN ToString(rounding) ELSE text[i]]
         IN  IF M # {} /\ new # text
             THEN [tree |-> [tree EXCEPT !["hyprland.conf"].text = new],
                   updated |-> <<"hyprland.conf">>]
             ELSE [tree |-> tree, updated |-> <<>>]

\* `need` of ensure_hypr_waybar_layerrules
LayerRules == <<"layerrule = blur, waybar", "layerrule = ignorezero, waybar">>

\* text += ("\n" if not text.endswith("\n") else "") + rule + "\n", when rule not in text
AppendRule(text, rule) ==
    IF Contains(text, <<rule>>) THEN text
    ELSE text \o (IF EndsWithNewline(text) THEN <<>> ELSE <<"\n">>) \o <<rule, "\n">>

\* ensure_hypr_waybar_layerrules
EnsureHyprWaybarLayerrules(tree) ==
    IF "hyprland.conf" \notin DOMAIN tree THEN [tree |-> tree, updated |-> <<>>]
    ELSE LET text == tree["hyprland.conf"].text
             new == AppendRule(AppendRule(text, LayerRules[1]), LayerRules[2])
         IN  IF new # text
             THEN [tree |-> [tree EXCEPT !["hyprland.conf"].text = new],
                   updated |-> <<"hyprland.conf">>]
             ELSE [tree |-> tree, updated |-> <<>>]

FloatingMarkers == <<"config:waybar_floating:border-radius",
                     "config:waybar_floating:padding",
                     "config:waybar_floating:margin">>

\* re.search(r"(window#waybar\s*>\s*box\s*\{)([^}]*)\}", text, re.DOTALL): the first
\* and last chunk of group 2 (last = first - 1 for an empty body)
BlockSearch(text) ==
    LET P == {i \in 1..Len(text) :
                 /\ text[i] = "window#waybar"
                 /\ LET j1 == SkipSpace(text, i + 1)
                        j2 == SkipSpace(text, j1 + 1)
                        j3 == SkipSpace(text, j2 + 1)
                    IN  /\ j3 <= Len(text)
                        /\ text[j1] = ">" /\ text[j2] = "box" /\ text[j3] = "{"
                        /\ \E e \in (j3 + 1)..Len(text) : text[e] = "}"}
    IN  IF P = {} THEN NoMatch
        ELSE LET i  == SetMin(P)
                 j3 == SkipSpace(text, SkipSpace(text, SkipSpace(text, i + 1) + 1) + 1)
                 e  == SetMin({e \in (j3 + 1)..Len(text) : text[e] = "}"})
             IN  [found |-> TRUE, a |-> j3 + 1, b |-> e - 1]

\* str.splitlines(True): the lines with their line breaks
RECURSIVE SplitKeepFrom(_, _, _)
SplitKeepFrom(text, i, cur) ==
    IF i > Len(text) THEN (IF cur = <<>> THEN <<>> ELSE <<cur>>)
    ELSE IF text[i] = "\r" /\ i + 1 <= Len(text) /\ text[i + 1] = "\n"
         THEN <<cur \o <<"\r", "\n">>>> \o SplitKeepFrom(text, i + 2, <<>>)
    ELSE IF text[i] \in {"\n", "\r"}
         THEN <<Append(cur, text[i])>> \o SplitKeepFrom(text, i + 1, <<>>)
    ELSE SplitKeepFrom(text, i + 1, Append(cur, text[i]))

SplitLinesKeepEnds(text) == SplitKeepFrom(text, 1, <<>>)

\* "".join(body_lines)
RECURSIVE Concat(_)
Concat(lines) == IF lines = <<>> THEN <<>> ELSE lines[1] \o Concat(Tail(lines))

\* find_line_with_marker: the index of the first line holding the marker, or 0
FindLineWithMarker(body_lines, marker) ==
    LET P == {i \in 1..Len(body_lines) : Contains(body_lines[i], <<marker>>)}
    IN  IF P = {} THEN 0 ELSE SetMin(P)

\* re.search(r"background-color:\s*[^;]+;", ln)
BackgroundSearch(ln) ==
    \E i \in 1..Len(ln) :
        /\ ln[i] = "background-color"
        /\ i + 1 <= Len(ln) /\ ln[i + 1] = ":"
        /\ \E k \in (i + 3)..Len(ln) :
              ln[k] = ";" /\ \A j \in (i + 2)..(k - 1) : ln[j] # ";"

InsertAt(lines, i, new_line) ==
    SubSeq(lines, 1, i - 1) \o <<new_line>> \o SubSeq(lines, i, Len(lines))

\* insert_after_background
InsertAfterBackground(body_lines, new_line) ==
    LET P == {i \in 1..Len(body_lines) : BackgroundSearch(body_lines[i])}
    IN  IF P = {} THEN Append(body_lines, new_line)
        ELSE InsertAt(body_lines, SetMin(P) + 1, new_line)

\* re.match(r"\s*", ln).group(0)
RECURSIVE LeadingSpace(_)
LeadingSpace(ln) ==
    IF ln # <<>> /\ IsSpace(ln[1]) THEN <<ln[1]>> \o LeadingSpace(Tail(ln)) ELSE <<>>

\* f"{prop}: {value}; /* {marker} */\n"
TaggedDeclaration(prop, value, marker) ==
    <<prop, ":", " ">> \o value \o <<";", " ", "/*", " ", marker, " ", "*/", "\n">>

\* set_prop
SetProp(body_lines, prop, value, marker) ==
    LET i == FindLineWithMarker(body_lines, marker)
    IN  IF i > 0
        THEN [body_lines EXCEPT ![i] = LeadingSpace(body_lines[i])
                                          \o TaggedDeclaration(prop, value, marker)]
        ELSE InsertAfterBackground(body_lines,
                                   <<"    ">> \o TaggedDeclaration(prop, value, marker))

\* remove_marker_lines
RECURSIVE RemoveMarkerLines(_, _)
RemoveMarkerLines(body_lines, markers) ==
    IF body_lines = <<>> THEN <<>>
    ELSE (IF \E i \in 1..Len(markers) : Contains(body_lines[1], <<markers[i]>>)
          THEN <<>> ELSE <<body_lines[1]>>)
         \o RemoveMarkerLines(Tail(body_lines), markers)

\* the editor update_waybar_floating passes to edit_waybar_block
Editor(body_lines, theme) ==
    IF theme.waybar_floating
    THEN SetProp(
             SetProp(
                 SetProp(body_lines, "border-radius",
                         <<ToString(theme.waybar_border_radius), "px">>,
                         FloatingMarkers[1]),
                 "padding", theme.waybar_padding, FloatingMarkers[2]),
             "margin", theme.waybar_margin, FloatingMarkers[3])
    ELSE RemoveMarkerLines(body_lines, FloatingMarkers)

\* edit_waybar_block: the text with the body of the first block edited
EditWaybarBlock(text, theme) ==
    LET m == BlockSearch(text)
    IN  IF ~m.found THEN text
        ELSE SubSeq(text, 1, m.a - 1)
                 \o Concat(Editor(SplitLinesKeepEnds(SubSeq(text, m.a, m.b)), theme))
                 \o SubSeq(text, m.b + 1, Len(text))

\* update_waybar_floating
UpdateWaybarFloating(tree, theme) ==
    IF "waybar.css" \notin DOMAIN tree THEN [tree |-> tree, updated |-> <<>>]
    ELSE LET text == tree["waybar.css"].text
             new == EditWaybarBlock(text, theme)
         IN  IF new # text
             THEN [tree |-> [tree EXCEPT !["waybar.css"].text = new],
                   updated |-> <<"waybar.css">>]
             ELSE [tree |-> tree, updated |-> <<>>]

-----------------------------------------------------------------------------
(* The canonical settings file *)

\* a text that a TOML basic string "..." holds as it is
TomlStringOk(text) == \A i \in 1..Len(text) : text[i] \notin {"\"", "\\", "\n"}

\* [ui] is written whether or not the file held one
UpdateThemeFileAlwaysUi(theme, toml) ==
    [exists |-> TRUE,
     wellFormed |-> TomlStringOk(theme.waybar_padding) /\ TomlStringOk(theme.waybar_margin),
     acc |-> [k \in AccentKeys |-> theme[k]],
     hasUi |-> TRUE,
     ui |-> [k \in UiKeys |-> theme[k]]]

\* update_theme_file: theme.toml as it is read back after the rewrite; [ui] is
\* written only when the file held a [ui] table before
UpdateThemeFile(theme, toml) ==
    LET existing_ui == toml.exists /\ toml.wellFormed /\ toml.hasUi
    IN  [exists |-> TRUE,
         wellFormed |-> existing_ui =>
                          (TomlStringOk(theme.waybar_padding)
                              /\ TomlStringOk(theme.waybar_margin)),
         acc |-> [k \in AccentKeys |-> theme[k]],
         hasUi |-> existing_ui,
         ui |-> IF existing_ui THEN [k \in UiKeys |-> theme[k]] ELSE <<>>]

\* the order in which apply_accent comes to the files of the tree
RECURSIVE ApplyAccentOver(_, _, _)
ApplyAccentOver(tree, names, theme) ==
    IF names = {} THEN [tree |-> tree, updated |-> <<>>]
    ELSE LET n == CHOOSE n \in names : TRUE
             Both(r, rest) ==
                 [tree |-> [rest.tree EXCEPT ![n] = r.file],
                  updated |-> (IF r.written THEN <<n>> ELSE <<>>) \o rest.updated]
         IN  Both(ApplyAccentToFile(tree[n], theme),
                  ApplyAccentOver(tree, names \ {n}, theme))

\* apply_accent: the tree as it is left and the list of the files written
ApplyAccent(tree, theme) == ApplyAccentOver(tree, IterThemeFiles(tree), theme)

-----------------------------------------------------------------------------
(* Inputs *)

\* the subsets of S with at most k elements
RECURSIVE KSubsets(_, _)
KSubsets(S, k) ==
    IF k = 0 THEN {{}}
    ELSE LET P == KSubsets(S, k - 1) IN P \cup {p \cup {x} : p \in P, x \in S}

\* how many colour values (overrides and stored keys together) an input gives
MaxGiven == 2

ColourA == <<"#", "c", "0", "0", "0", "0", "0">>
ColourB == <<"0", "0", "C", "0", "F", "F">>
ColourPadded == <<" ", "#", "0", "0", "c", "0", "0", "0", "\n">>
ColourBad == <<"#", "c", "0", "c", "0", "c">>

OverrideTexts == {<<>>, ColourB}
StoredTexts == {<<>>, ColourA, ColourBad}

ColourSlots == {"cli", "toml"} \X AccentKeys

SlotTexts(slot) == IF slot[1] = "cli" THEN OverrideTexts ELSE StoredTexts

\* the assignments of a text to each of at most n slots
ColourChoices(n) ==
    UNION {{f \in [S -> OverrideTexts \cup StoredTexts] :
                \A slot \in S : f[slot] \in SlotTexts(slot)} :
           S \in KSubsets(ColourSlots, n)}

\* a command line, by flag; a flag that was not passed is None
MkCli(col, rounding, floating, radius, padding, margin, skip) ==
    [accent |-> col["primary"], accent_bright |-> col["primary_bright"],
     accent_secondary |-> col["secondary"],
     accent_secondary_bright |-> col["secondary_bright"],
     accent_tertiary |-> col["tertiary"],
     accent_tertiary_bright |-> col["tertiary_bright"],
     accent_quaternary |-> col["quaternary"],
     accent_quaternary_bright |-> col["quaternary_bright"],
     accent_quinary |-> col["quinary"],
     accent_quinary_bright |-> col["quinary_bright"],
     rounding |-> rounding, waybar_floating |-> floating,
     waybar_border_radius |-> radius, waybar_padding |-> padding,
     waybar_margin |-> margin, skip_palette |-> skip]

NoColours == [k \in AccentKeys |-> None]

CliColours(f) ==
    [k \in AccentKeys |-> IF <<"cli", k>> \in DOMAIN f THEN Some(f[<<"cli", k>>]) ELSE None]

TomlColours(f) ==
    [k \in {k \in AccentKeys : <<"toml", k>> \in DOMAIN f} |-> f[<<"toml", k>>]]

MkToml(acc, hasUi, ui) ==
    [exists |-> TRUE, wellFormed |-> TRUE, acc |-> acc, hasUi |-> hasUi, ui |-> ui]

MissingToml ==
    [exists |-> FALSE, wellFormed |-> FALSE, acc |-> <<>>, hasUi |-> FALSE, ui |-> <<>>]

MalformedToml ==
    [exists |-> TRUE, wellFormed |-> FALSE, acc |-> <<>>, hasUi |-> TRUE, ui |-> <<>>]

FloatingTexts == {<<"true">>, <<"YES">>, <<"1">>, <<"no">>, <<"False">>}

\* the [ui] tables of the inputs: each key absent or holding a value
UiTables ==
    {[k \in K |-> CASE k = "rounding" -> 5
                    [] k = "waybar_floating" -> b
                    [] k = "waybar_border_radius" -> 8
                    [] k = "waybar_padding" -> <<"1px">>
                    [] k = "waybar_margin" -> <<"2px">>] :
        K \in SUBSET UiKeys, b \in BOOLEAN}

UiClis ==
    {MkCli(NoColours, r, f, br, p, m, FALSE) :
        r \in {None, Some(0), Some(7)},
        f \in {None} \cup {Some(t) : t \in FloatingTexts},
        br \in {None, Some(0)},
        p \in {None, Some(<<"0">>)},
        m \in {None, Some(<<"9px">>)}}

\* the (command line, theme.toml) pairs load_theme is run on, with at most n colour
\* values given
ResolveInputs(n) ==
    {<<MkCli(CliColours(f), None, None, None, None, None, FALSE),
       MkToml(TomlColours(f), FALSE, <<>>)>> : f \in ColourChoices(n)}
    \cup {<<c, MkToml(<<>>, TRUE, u)>> : c \in UiClis, u \in UiTables}
    \cup {<<c, MkToml(<<>>, FALSE, <<>>)>> : c \in UiClis}
    \cup {<<MkCli(NoColours, None, None, None, None, None, FALSE), t>> :
             t \in {MissingToml, MalformedToml}}

SamplePairs == {<<"0", "0">>, <<"c", "9">>, <<"F", "f">>, <<"0", "A">>, <<"g", "0">>}

\* the texts the colour functions are applied to
ColourInputs ==
    {pad \o sigil \o p1 \o p2 \o p3 \o trail :
        pad \in {<<>>, <<" ">>}, sigil \in {<<>>, <<"#">>, <<"#", "#">>},
        p1 \in SamplePairs, p2 \in SamplePairs, p3 \in SamplePairs,
        trail \in {<<>>, <<" ">>, <<"0">>}}

\* colours #RRGGBB: every value of the first channel, with two values of the others
ChannelInputs ==
    {<<"#">> \o Hex2(r) \o Hex2(gb[1]) \o Hex2(gb[2]) :
        r \in 0..MaxChannel, gb \in {<<0, MaxChannel>>, <<128, 17>>}}

NoCli == MkCli(NoColours, None, None, None, None, None, FALSE)

\* the Theme of an empty theme.toml: every default, secondary equal to primary
ThemeDefault == LoadThemeFromArgs(ParseArgs(NoCli), MkToml(<<>>, FALSE, <<>>)).theme

\* a Theme whose ten colours differ from each other
ThemeDistinct ==
    LoadThemeFromArgs(
        ParseArgs(MkCli([NoColours EXCEPT !["primary"] = Some(ColourB),
                                          !["secondary"] = Some(ColourA)],
                        None, None, None, None, None, FALSE)),
        MkToml(<<>>, FALSE, <<>>)).theme

SampleThemes == {ThemeDefault, ThemeDistinct}

Hex0 == <<"#", "0", "0", "0", "0", "0", "0">>
Rgba0 == <<"rgba(", "0", "0", "0", "0", "0", "0", "0", "0", ")">>

BaseNames == {"primary", "secondary", "tertiary", "quaternary", "quinary"}

\* the marker texts a user may write: every base with every suffix
MarkerTexts ==
    {<<"accent:", b>> \o sfx :
        b \in BaseNames,
        sfx \in {<<>>, <<"-bright">>, <<"-rgba">>, <<"-bright", "-rgba">>}}

\* a declaration followed by a marker comment, in CSS or in '#' comment style
InlineLine(literals, marker, hashStyle) ==
    <<"x", " ">> \o literals
        \o (IF hashStyle THEN <<" ", "#", " ">> \o marker
            ELSE <<";", " ", "/*", " ">> \o marker \o <<" ", "*/">>)

\* the lines update_line_with_accent is applied to: one marker each
LineInputs ==
    {InlineLine(lits, m, h) :
        lits \in {<<>>, Hex0, Rgba0, Hex0 \o <<" ">> \o Rgba0, Rgba0 \o <<" ">> \o Hex0},
        m \in MarkerTexts, h \in BOOLEAN}

\* how many lines a file of the inputs has
MaxLines == 3

StandaloneLine(token) == <<"#", " ", "accent:">> \o token

\* the lines of the files apply_accent is run on, for a theme
FileLines(theme) ==
    {StandaloneLine(<<"secondary">>),
     StandaloneLine(<<"foo">>),
     <<"}">>,
     <<"x", " ">> \o Hex0 \o <<";">>,
     <<"x", " ">> \o theme.secondary \o <<";">>,
     <<"x", " ">> \o Rgba0 \o <<";">>,
     InlineLine(Hex0, <<"accent:", "primary">>, FALSE),
     InlineLine(theme.primary, <<"accent:", "primary">>, FALSE),
     <<"/*", " ", "accent:", "tertiary", " ", "*/">>}

RECURSIVE SeqsUpTo(_, _)
SeqsUpTo(S, n) ==
    IF n = 0 THEN {<<>>}
    ELSE LET P == SeqsUpTo(S, n - 1) IN P \cup {Append(p, x) : p \in P, x \in S}

TextFile(text) == [suffix |-> ".conf", utf8 |-> TRUE, text |-> text]

\* the files apply_accent is run on: text files of at most MaxLines lines, with and
\* without a final line break, an image, a file that is not UTF-8 and a text whose
\* two lines are separated by a form feed
AccentFiles(theme) ==
    {TextFile(JoinLines(ls) \o nl) :
        ls \in SeqsUpTo(FileLines(theme), MaxLines), nl \in {<<>>, <<"\n">>}}
    \cup {[suffix |-> sfx, utf8 |-> u,
           text |-> InlineLine(Hex0, <<"accent:", "primary">>, FALSE) \o <<"\n">>] :
             sfx \in {".conf", ".png"}, u \in BOOLEAN}
    \cup {TextFile(InlineLine(Hex0, <<"accent:", "primary">>, FALSE) \o <<"\f">>
                     \o <<"x", " ">> \o Hex0 \o <<";">> \o nl) : nl \in {<<>>, <<"\n">>}}

\* how many declarations the waybar block of an input holds
MaxDecls == 2

\* how many times update_waybar_floating is run on a stylesheet
MaxCssRuns == 2

\* how many times apply_theme.py is run on a tree
MaxRuns == 2

File(suffix, text) == [suffix |-> suffix, utf8 |-> TRUE, text |-> text]

BgDecl == <<"background-color", ":", " ", "red", ";">>
ColorDecl == <<"color", ":", " ", "blue", ";">>

\* a declaration followed by its marker comment, as a user writes it
TaggedItem(prop, value, marker) ==
    <<prop, ":", " ">> \o value \o <<";", " ", "/*", " ", marker, " ", "*/">>

DeclItems ==
    {BgDecl, ColorDecl,
     TaggedItem("border-radius", <<"5", "px">>, FloatingMarkers[1]),
     TaggedItem("padding", <<"1px">>, FloatingMarkers[2])}

\* the declarations on one line, or one per line indented by four spaces
RECURSIVE LayOut(_, _)
LayOut(items, oneLine) ==
    IF items = <<>> THEN <<>>
    ELSE (IF oneLine THEN items[1] \o <<" ">> ELSE <<"    ">> \o items[1] \o <<"\n">>)
         \o LayOut(Tail(items), oneLine)

BlockText(items, oneLine) ==
    <<"window#waybar", " ", ">", " ", "box", " ", "{">>
        \o (IF oneLine THEN <<" ">> ELSE <<"\n">>)
        \o LayOut(items, oneLine) \o <<"}", "\n">>

OtherBlock == <<"*", " ", "{", " ">> \o ColorDecl \o <<" ", "}", "\n">>

\* the stylesheets update_waybar_floating is run on
CssTexts ==
    {prefix \o BlockText(items, oneLine) :
        prefix \in {<<>>, OtherBlock},
        items \in SeqsUpTo(DeclItems, MaxDecls), oneLine \in BOOLEAN}
    \cup {OtherBlock}

\* the trees of the stylesheet runs: waybar.css with a text, or no waybar.css
CssTrees == {[n \in {"waybar.css"} |-> File(".css", t)] : t \in CssTexts} \cup {<<>>}

\* the themes of the stylesheet runs
CssThemes ==
    {[ThemeDefault EXCEPT !.waybar_floating = f, !.waybar_border_radius = r] :
        f \in BOOLEAN, r \in {DefaultWaybarBorderRadius, 0}}

ColourLong == <<"#", "c", "0", "0", "0", "0", "0", "0">>

\* theme.toml before the first run
MainTomls ==
    {MissingToml,
     MkToml(<<>>, FALSE, <<>>),
     MkToml([k \in {"secondary"} |-> ColourA], TRUE,
            [k \in {"rounding"} |-> 5]),
     MkToml([k \in {"primary_bright"} |-> ColourA], FALSE, <<>>)}

ColorsStandalone ==
    JoinLines(<<StandaloneLine(<<"secondary">>),
                InlineLine(Hex0, <<"accent:", "primary">>, FALSE)>>) \o <<"\n">>

ColorsInline == InlineLine(Hex0, <<"accent:", "primary">>, FALSE) \o <<"\n">>

HyprText == <<"rounding", " ", "=", " ", "5", " ", "#", " ", "config:rounding", "\n">>

\* a tree: a managed file and an image, with or without hyprland.conf and waybar.css
Tree(colors, css) ==
    [n \in {"colors.conf", "logo.png"}
            \cup (IF css = <<>> THEN {} ELSE {"hyprland.conf", "waybar.css"}) |->
        CASE n = "colors.conf" -> File(".conf", colors)
          [] n = "logo.png" -> File(".png", ColorsInline)
          [] n = "hyprland.conf" -> File(".conf", HyprText)
          [] n = "waybar.css" -> File(".css", css)]

\* the trees apply_theme.py is run on
MainTrees ==
    {Tree(c, css) :
        c \in {ColorsStandalone, ColorsInline},
        css \in {<<>>, BlockText(<<BgDecl>>, TRUE), BlockText(<<BgDecl, ColorDecl>>, FALSE)}}

\* the command lines of the runs
MainClis ==
    {NoCli,
     MkCli(NoColours, None, None, None, None, None, TRUE),
     MkCli(NoColours, Some(0), None, None, None, None, FALSE),
     MkCli(NoColours, None, Some(<<"no">>), None, None, None, FALSE)}
    \cup {MkCli([NoColours EXCEPT ![k] = Some(t)], None, None, None, None, None, FALSE) :
             k \in {"primary"}, t \in {ColourB, ColourPadded, ColourLong}}
    \cup {MkCli([NoColours EXCEPT !["primary_bright"] = Some(ColourB)],
                None, None, None, None, None, FALSE)}

-----------------------------------------------------------------------------
(* The colour functions, applied to one text *)

NoResult == [ok |-> FALSE, err |-> "none"]

ColourIdle ==
    /\ cin = <<>> /\ cpc = "idle" /\ cnorm = NoResult
    /\ crgba = <<>> /\ clight = <<>> /\ ctheme = NoResult

ResolveIdle ==
    /\ rcli = <<>> /\ rtoml = <<>> /\ rargs = <<>> /\ rres = NoResult /\ rpc = "idle"

LineIdle == lline = <<>> /\ ltheme = <<>> /\ lout = <<>> /\ lpc = "idle"

AccentIdle ==
    /\ afile = <<>> /\ aorig = <<>> /\ atheme = <<>> /\ alines = <<>> /\ ai = 0
    /\ apending = None /\ achanged = FALSE /\ apc = "idle"

CssIdle ==
    /\ wtree = <<>> /\ wbefore = <<>> /\ wtheme = <<>> /\ wupdated = <<>> /\ wruns = 0
    /\ wstart = <<>> /\ wallOn = TRUE

MainIdle ==
    /\ mtoml = <<>> /\ mtree = <<>> /\ mcli = <<>> /\ mres = NoResult /\ mupdated = <<>>
    /\ mpc = "idle" /\ mruns = 0 /\ mstart = <<>> /\ mprev = None /\ mbright = FALSE
    /\ mhadUi = FALSE /\ mwrote = FALSE

ColourInit ==
    /\ cin \in ColourInputs
    /\ cpc = "start"
    /\ cnorm = NoResult
    /\ crgba = <<>>
    /\ clight = <<>>
    /\ ctheme = NoResult
    /\ ResolveIdle /\ LineIdle /\ AccentIdle /\ CssIdle /\ MainIdle

CNormalize ==
    /\ cpc = "start"
    /\ cnorm' = NormalizeHex(cin)
    /\ cpc' = IF cnorm'.ok THEN "normalized" ELSE "raised"
    /\ UNCHANGED <<cin, crgba, clight, ctheme, resolveVars, lineVars, accentVars, cssVars, mainVars>>

CHexToRgba ==
    /\ cpc = "normalized"
    /\ crgba' = HexToRgba(cnorm.v)
    /\ cpc' = "rgba"
    /\ UNCHANGED <<cin, cnorm, clight, ctheme, resolveVars, lineVars, accentVars, cssVars, mainVars>>

CLighten ==
    /\ cpc = "rgba"
    /\ clight' = Lighten(cnorm.v).v
    /\ cpc' = "lightened"
    /\ UNCHANGED <<cin, cnorm, crgba, ctheme, resolveVars, lineVars, accentVars, cssVars, mainVars>>

\* load_theme with the text as the primary colour, passed as --accent or stored
CLoadTheme ==
    /\ cpc = "lightened"
    /\ \E stored \in BOOLEAN :
         ctheme' = LoadThemeFromArgs(
                       ParseArgs(MkCli([NoColours EXCEPT !["primary"] =
                                            IF stored THEN None ELSE Some(cin)],
                                       None, None, None, None, None, FALSE)),
                       MkToml(IF stored THEN [k \in {"primary"} |-> cin] ELSE <<>>,
                              FALSE, <<>>))
    /\ cpc' = "loaded"
    /\ UNCHANGED <<cin, cnorm, crgba, clight, resolveVars, lineVars, accentVars, cssVars, mainVars>>

ColourNext == CNormalize \/ CHexToRgba \/ CLighten \/ CLoadTheme

SpecColour == ColourInit /\ [][ColourNext]_vars

\* the same functions on colours whose first channel takes every value
ChannelInit ==
    /\ cin \in ChannelInputs
    /\ cpc = "start"
    /\ cnorm = NoResult
    /\ crgba = <<>>
    /\ clight = <<>>
    /\ ctheme = NoResult
    /\ ResolveIdle /\ LineIdle /\ AccentIdle /\ CssIdle /\ MainIdle

SpecChannels == ChannelInit /\ [][ColourNext]_vars

-----------------------------------------------------------------------------
(* One resolution: parse_args, then load_theme *)

ResolveInit ==
    /\ \E in \in ResolveInputs(MaxGiven) : rcli = in[1] /\ rtoml = in[2]
    /\ rargs = <<>>
    /\ rres = NoResult
    /\ rpc = "start"
    /\ ColourIdle /\ LineIdle /\ AccentIdle /\ CssIdle /\ MainIdle

RParseArgs ==
    /\ rpc = "start"
    /\ rargs' = ParseArgs(rcli)
    /\ rpc' = "parsed"
    /\ UNCHANGED <<rcli, rtoml, rres, colourVars, lineVars, accentVars, cssVars, mainVars>>

RLoadTheme ==
    /\ rpc = "parsed"
    /\ rres' = LoadThemeFromArgs(rargs, rtoml)
    /\ rpc' = IF rres'.ok THEN "resolved" ELSE "raised"
    /\ UNCHANGED <<rcli, rtoml, rargs, colourVars, lineVars, accentVars, cssVars, mainVars>>

ResolveNext == RParseArgs \/ RLoadTheme

SpecResolve == ResolveInit /\ [][ResolveNext]_vars

-----------------------------------------------------------------------------
(* update_line_with_accent on one line *)

LineInit ==
    /\ lline \in LineInputs
    /\ ltheme \in SampleThemes
    /\ lout = <<>>
    /\ lpc = "start"
    /\ ColourIdle /\ ResolveIdle /\ AccentIdle /\ CssIdle /\ MainIdle

LUpdateLine ==
    /\ lpc = "start"
    /\ lout' = UpdateLineWithAccent(lline, ltheme)
    /\ lpc' = "done"
    /\ UNCHANGED <<lline, ltheme, colourVars, resolveVars, accentVars, cssVars, mainVars>>

LineNext == LUpdateLine

SpecLine == LineInit /\ [][LineNext]_vars

-----------------------------------------------------------------------------
(* apply_accent on one file of the tree *)

AccentInit ==
    /\ atheme \in {ThemeDistinct}
    /\ afile \in AccentFiles(atheme)
    /\ aorig = afile
    /\ alines = <<>>
    /\ ai = 0
    /\ apending = None
    /\ achanged = FALSE
    /\ apc = "start"
    /\ ColourIdle /\ ResolveIdle /\ LineIdle /\ CssIdle /\ MainIdle

\* the file is skipped: an image, not UTF-8, or without "accent:"
ASkip ==
    /\ apc = "start"
    /\ \/ afile.suffix \in SkipSuffixes
       \/ ~afile.utf8
       \/ ~Contains(afile.text, <<"accent:">>)
    /\ apc' = "skipped"
    /\ UNCHANGED <<afile, aorig, atheme, alines, ai, apending, achanged>>
    /\ UNCHANGED <<colourVars, resolveVars, lineVars, cssVars, mainVars>>

\* the file is read and split
AOpen ==
    /\ apc = "start"
    /\ afile.suffix \notin SkipSuffixes
    /\ afile.utf8
    /\ Contains(afile.text, <<"accent:">>)
    /\ alines' = SplitLines(afile.text)
    /\ ai' = 0
    /\ apending' = None
    /\ achanged' = FALSE
    /\ apc' = "scan"
    /\ UNCHANGED <<afile, aorig, atheme, colourVars, resolveVars, lineVars, cssVars, mainVars>>

\* one turn of the loop: ai counts the lines already processed
ALine ==
    /\ apc = "scan"
    /\ ai < Len(alines)
    /\ LET r == LineStep(alines[ai + 1], apending, atheme)
       IN  /\ alines' = [alines EXCEPT ![ai + 1] = r.line]
           /\ apending' = r.pending
           /\ achanged' = (achanged \/ r.altered)
    /\ ai' = ai + 1
    /\ UNCHANGED <<afile, aorig, atheme, apc, colourVars, resolveVars, lineVars, cssVars, mainVars>>

\* after the loop: the file is written when a line changed
AWrite ==
    /\ apc = "scan"
    /\ ai = Len(alines)
    /\ IF achanged
       THEN /\ afile' = [afile EXCEPT !.text = WrittenText(alines, afile.text)]
            /\ apc' = "written"
       ELSE /\ afile' = afile
            /\ apc' = "untouched"
    /\ UNCHANGED <<aorig, atheme, alines, ai, apending, achanged>>
    /\ UNCHANGED <<colourVars, resolveVars, lineVars, cssVars, mainVars>>

AccentNext == ASkip \/ AOpen \/ ALine \/ AWrite

SpecAccent == AccentInit /\ [][AccentNext]_vars

-----------------------------------------------------------------------------
(* apply_updates of update_accent.py on one file of the tree *)

\* the file is skipped: an image, not UTF-8, or without "accent:"
USkip ==
    /\ apc = "start"
    /\ \/ afile.suffix \in SkipSuffixes
       \/ ~afile.utf8
       \/ ~Contains(afile.text, <<"accent:">>)
    /\ apc' = "skipped"
    /\ UNCHANGED <<afile, aorig, atheme, alines, ai, apending, achanged>>
    /\ UNCHANGED <<colourVars, resolveVars, lineVars, cssVars, mainVars>>

\* the file is read and split
UOpen ==
    /\ apc = "start"
    /\ afile.suffix \notin SkipSuffixes
    /\ afile.utf8
    /\ Contains(afile.text, <<"accent:">>)
    /\ alines' = SplitLines(afile.text)
    /\ ai' = 0
    /\ achanged' = FALSE
    /\ apc' = "scan"
    /\ UNCHANGED <<afile, aorig, atheme, apending>>
    /\ UNCHANGED <<colourVars, resolveVars, lineVars, cssVars, mainVars>>

\* one turn of the loop: ai counts the lines already processed
ULine ==
    /\ apc = "scan"
    /\ ai < Len(alines)
    /\ LET r == UpdateLine(alines[ai + 1], Palette(atheme))
       IN  /\ alines' = IF r.changed THEN [alines EXCEPT ![ai + 1] = r.line] ELSE alines
           /\ achanged' = (achanged \/ r.changed)
    /\ ai' = ai + 1
    /\ UNCHANGED <<afile, aorig, atheme, apending, apc>>
    /\ UNCHANGED <<colourVars, resolveVars, lineVars, cssVars, mainVars>>

\* after the loop: the file is written when a line was flagged as altered
UWrite ==
    /\ apc = "scan"
    /\ ai = Len(alines)
    /\ IF achanged
       THEN /\ afile' = [afile EXCEPT !.text = WrittenText(alines, afile.text)]
            /\ apc' = "written"
       ELSE /\ afile' = afile
            /\ apc' = "untouched"
    /\ UNCHANGED <<aorig, atheme, alines, ai, apending, achanged>>
    /\ UNCHANGED <<colourVars, resolveVars, lineVars, cssVars, mainVars>>

UpdatesNext == USkip \/ UOpen \/ ULine \/ UWrite

SpecUpdates == AccentInit /\ [][UpdatesNext]_vars

-----------------------------------------------------------------------------
(* update_waybar_floating, run repeatedly on one stylesheet *)

CssInit ==
    /\ wtree \in CssTrees
    /\ wbefore = wtree
    /\ wstart = wtree
    /\ wallOn = TRUE
    /\ wtheme = <<>>
    /\ wupdated = <<>>
    /\ wruns = 0
    /\ ColourIdle /\ ResolveIdle /\ LineIdle /\ AccentIdle /\ MainIdle

\* one run of update_waybar_floating with a theme
WUpdate ==
    /\ wruns < MaxCssRuns
    /\ \E theme \in CssThemes :
         LET r == UpdateWaybarFloating(wtree, theme)
         IN  /\ wtree' = r.tree
             /\ wupdated' = r.updated
             /\ wtheme' = theme
             /\ wallOn' = (wallOn /\ theme.waybar_floating)
    /\ wbefore' = wtree
    /\ wstart' = wstart
    /\ wruns' = wruns + 1
    /\ UNCHANGED <<colourVars, resolveVars, lineVars, accentVars, mainVars>>

CssNext == WUpdate

SpecCss == CssInit /\ [][CssNext]_vars

-----------------------------------------------------------------------------
(* Runs of apply_theme.py: main *)

BrightKeys == {"primary_bright", "secondary_bright", "tertiary_bright",
               "quaternary_bright", "quinary_bright"}

\* a bright key or a bright override was given
MainInit ==
    /\ mtoml \in MainTomls
    /\ mtree \in MainTrees
    /\ mcli = <<>>
    /\ mres = NoResult
    /\ mupdated = <<>>
    /\ mpc = "start"
    /\ mruns = 1
    /\ mstart = [toml |-> mtoml, tree |-> mtree]
    /\ mprev = None
    /\ mbright = (\E k \in BrightKeys : k \in DOMAIN mtoml.acc)
    /\ mhadUi = mtoml.hasUi
    /\ mwrote = FALSE
    /\ ColourIdle /\ ResolveIdle /\ LineIdle /\ AccentIdle /\ CssIdle

\* args = parse_args(); theme = load_theme(...)
MLoad ==
    /\ mpc = "start"
    /\ \E cli \in MainClis :
         /\ mcli' = cli
         /\ mres' = LoadThemeFromArgs(ParseArgs(cli), mtoml)
         /\ mbright' = (mbright \/ \E k \in BrightKeys : cli[CliColourDest[k]] # None)
    /\ mpc' = IF mres'.ok THEN "accent" ELSE "raised"
    /\ UNCHANGED <<mtoml, mtree, mupdated, mruns, mstart, mprev, mhadUi, mwrote>>
    /\ UNCHANGED <<colourVars, resolveVars, lineVars, accentVars, cssVars>>

\* updated += apply_accent(theme)
MApplyAccent ==
    /\ mpc = "accent"
    /\ \E r \in {ApplyAccent(mtree, mres.theme)} :
          mtree' = r.tree /\ mupdated' = mupdated \o r.updated
    /\ mpc' = "rounding"
    /\ UNCHANGED <<mtoml, mcli, mres, mruns, mstart, mprev, mbright, mhadUi, mwrote>>
    /\ UNCHANGED <<colourVars, resolveVars, lineVars, accentVars, cssVars>>

\* updated += ensure_hypr_rounding(theme.rounding)
MRounding ==
    /\ mpc = "rounding"
    /\ LET r == EnsureHyprRounding(mtree, mres.theme.rounding)
       IN  mtree' = r.tree /\ mupdated' = mupdated \o r.updated
    /\ mpc' = "layerrules"
    /\ UNCHANGED <<mtoml, mcli, mres, mruns, mstart, mprev, mbright, mhadUi, mwrote>>
    /\ UNCHANGED <<colourVars, resolveVars, lineVars, accentVars, cssVars>>

\* updated += ensure_hypr_waybar_layerrules()
MLayerrules ==
    /\ mpc = "layerrules"
    /\ LET r == EnsureHyprWaybarLayerrules(mtree)
       IN  mtree' = r.tree /\ mupdated' = mupdated \o r.updated
    /\ mpc' = "floating"
    /\ UNCHANGED <<mtoml, mcli, mres, mruns, mstart, mprev, mbright, mhadUi, mwrote>>
    /\ UNCHANGED <<colourVars, resolveVars, lineVars, accentVars, cssVars>>

\* updated += update_waybar_floating(theme)
MFloating ==
    /\ mpc = "floating"
    /\ LET r == UpdateWaybarFloating(mtree, mres.theme)
       IN  mtree' = r.tree /\ mupdated' = mupdated \o r.updated
    /\ mpc' = "palette"
    /\ UNCHANGED <<mtoml, mcli, mres, mruns, mstart, mprev, mbright, mhadUi, mwrote>>
    /\ UNCHANGED <<colourVars, resolveVars, lineVars, accentVars, cssVars>>

\* if not args.skip_palette: update_theme_file(theme)
MPalette ==
    /\ mpc = "palette"
    /\ mtoml' = IF mcli.skip_palette THEN mtoml ELSE UpdateThemeFile(mres.theme, mtoml)
    /\ mpc' = "done"
    /\ UNCHANGED <<mtree, mcli, mres, mupdated, mruns, mstart, mprev, mbright, mhadUi, mwrote>>
    /\ UNCHANGED <<colourVars, resolveVars, lineVars, accentVars, cssVars>>

\* the script is started again on the tree as the last run left it
MAgain ==
    /\ mpc \in {"done", "raised"}
    /\ mruns < MaxRuns
    /\ mruns' = mruns + 1
    /\ mstart' = [toml |-> mtoml, tree |-> mtree]
    /\ mprev' = IF mpc = "done" THEN Some(mres.theme) ELSE mprev
    /\ mwrote' = (mpc = "done" /\ ~mcli.skip_palette)
    /\ mupdated' = <<>>
    /\ mpc' = "start"
    /\ UNCHANGED <<mtoml, mtree, mcli, mres, mbright, mhadUi>>
    /\ UNCHANGED <<colourVars, resolveVars, lineVars, accentVars, cssVars>>

MainNext ==
    MLoad \/ MApplyAccent \/ MRounding \/ MLayerrules \/ MFloating \/ MPalette \/ MAgain

SpecMain == MainInit /\ [][MainNext]_vars

-----------------------------------------------------------------------------
(* Claims *)

BaseOf == [primary_bright |-> "primary", secondary_bright |-> "secondary",
           tertiary_bright |-> "tertiary", quaternary_bright |-> "quaternary",
           quinary_bright |-> "quinary"]

\* the value load_theme falls back to when neither an override nor a stored value
\* supplies the colour, given the theme it resolved
FallbackOf(k, theme) ==
    CASE k = "primary" -> DefaultPrimary
      [] k = "secondary" -> theme.primary
      [] k = "tertiary" -> DefaultTertiary
      [] k = "quaternary" -> DefaultQuaternary
      [] k = "quinary" -> DefaultQuinary
      [] OTHER -> Lighten(theme[BaseOf[k]]).v

UiFallbackOf(k) ==
    CASE k = "rounding" -> DefaultRounding
      [] k = "waybar_floating" -> DefaultWaybarFloating
      [] k = "waybar_border_radius" -> DefaultWaybarBorderRadius
      [] k = "waybar_padding" -> DefaultWaybarPadding
      [] k = "waybar_margin" -> DefaultWaybarMargin

UiTiersHold ==
    \A k \in UiKeys :
        rres.theme[k] =
            IF rargs[k].some THEN rargs[k].v
            ELSE IF rtoml.hasUi /\ k \in DOMAIN rtoml.ui THEN rtoml.ui[k]
            ELSE UiFallbackOf(k)

\* C4 as stated: every colour and UI field of the resolved Theme is the override
\* when one is given, else the stored value when the key is present, else the
\* default; a given override or a present key always wins over the lower tiers.
C4_GivenTierWins ==
    rpc = "resolved" =>
        /\ \A k \in AccentKeys :
              LET ov  == rargs[CliColourDest[k]]
                  sel == IF ov.some THEN ov.v
                         ELSE IF k \in DOMAIN rtoml.acc THEN rtoml.acc[k]
                         ELSE FallbackOf(k, rres.theme)
              IN  NormalizeHex(sel).ok /\ rres.theme[k] = NormalizeHex(sel).v
        /\ UiTiersHold

\* C4 (amended): a colour tier supplies a value only when its text is non-empty:
\* the resolved colour is the normalized non-empty override, else the normalized
\* non-empty stored value, else the default (the resolved primary for secondary,
\* lighten(base) for a bright slot); each UI field is the override whenever one is
\* given (0 and False included), else the stored value when the key is present,
\* else the built-in default.
C4_ThreeTierResolution ==
    rpc = "resolved" =>
        /\ \A k \in AccentKeys :
              LET ov  == rargs[CliColourDest[k]]
                  sel == IF ov.some /\ Len(ov.v) > 0 THEN ov.v
                         ELSE IF k \in DOMAIN rtoml.acc /\ Len(rtoml.acc[k]) > 0
                              THEN rtoml.acc[k]
                         ELSE FallbackOf(k, rres.theme)
              IN  NormalizeHex(sel).ok /\ rres.theme[k] = NormalizeHex(sel).v
        /\ UiTiersHold

C4_Witness ==
    /\ rpc = "resolved"
    /\ rargs.accent_secondary = Some(ColourB)
    /\ "secondary" \in DOMAIN rtoml.acc /\ rtoml.acc["secondary"] = ColourA
    /\ rres.theme.secondary = <<"#", "0", "0", "c", "0", "f", "f">>

\* the text of a --waybar-floating argument is none of true, 1, yes in any case
UnrecognizedFloating ==
    /\ rcli.waybar_floating.some
    /\ rcli.waybar_floating.v \notin
           {<<"true">>, <<"TRUE">>, <<"True">>, <<"1">>, <<"yes">>, <<"YES">>}

\* C7 as stated: a --waybar-floating argument that is not a truthy token leaves the
\* resolved waybar_floating at the stored value (or the default True), as if the
\* flag had not been passed.
C7_UnrecognizedIsNotOverridden ==
    (rpc = "resolved" /\ UnrecognizedFloating) =>
        rres.theme.waybar_floating =
            GetOr(TomlUi(rtoml), "waybar_floating", DefaultWaybarFloating)

\* C7 (amended): a --waybar-floating argument that is not a truthy token is an
\* override of False: the resolved waybar_floating is False whatever theme.toml
\* stores.
C7_UnrecognizedIsFalse ==
    (rpc = "resolved" /\ UnrecognizedFloating) => rres.theme.waybar_floating = FALSE

C7_Witness ==
    /\ rpc = "resolved"
    /\ rcli.waybar_floating = Some(<<"no">>)
    /\ rtoml.hasUi /\ "waybar_floating" \in DOMAIN rtoml.ui /\ rtoml.ui.waybar_floating
    /\ ~rres.theme.waybar_floating

\* x is six hexadecimal digits, with or without a leading '#'
SixHexDigits(x) ==
    \/ Len(x) = 6 /\ \A i \in 1..6 : IsHexDigit(x[i])
    \/ Len(x) = 7 /\ x[1] = "#" /\ \A i \in 2..7 : IsHexDigit(x[i])

WithoutHash(x) == IF x[1] = "#" THEN Tail(x) ELSE x

RgbaFields == {<<"primary_rgba", "primary">>, <<"secondary_rgba", "secondary">>,
               <<"secondary_bright_rgba", "secondary_bright">>,
               <<"tertiary_rgba", "tertiary">>,
               <<"tertiary_bright_rgba", "tertiary_bright">>,
               <<"quaternary_rgba", "quaternary">>,
               <<"quaternary_bright_rgba", "quaternary_bright">>,
               <<"quinary_rgba", "quinary">>,
               <<"quinary_bright_rgba", "quinary_bright">>}

\* C10: for x of six hex digits in any case, with or without '#', normalize_hex
\* accepts x and hex_to_rgba(normalize_hex(x)) is "rgba(" + lowercase digits of x +
\* "ff)"; every *_rgba field of a resolved Theme is its hex field's six digits
\* followed by "ff".
C10_ColourRoundTrip ==
    /\ (SixHexDigits(cin) /\ cpc # "start") => cpc # "raised"
    /\ (SixHexDigits(cin) /\ cpc \in {"rgba", "lightened", "loaded"}) =>
          crgba = <<"rgba(">> \o Lower(WithoutHash(cin)) \o <<"f", "f", ")">>
    /\ (cpc = "loaded" /\ ctheme.ok) =>
          \A f \in RgbaFields :
              /\ Len(ctheme.theme[f[2]]) = 7
              /\ ctheme.theme[f[1]] =
                     <<"rgba(">> \o Tail(ctheme.theme[f[2]]) \o <<"f", "f", ")">>

C10_Witness ==
    /\ cpc = "loaded" /\ ctheme.ok
    /\ cin = <<"F", "f", "0", "A", "c", "9">>
    /\ crgba = <<"rgba(", "f", "f", "0", "a", "c", "9", "f", "f", ")">>
    /\ ctheme.theme.primary_rgba = crgba

\* the line holds a colour or an RGBA literal
HasLiteral(line) == HexSearch(line).found \/ RgbaSearch(line).found

\* a comment-only line that carries a recognized marker token
IsStandaloneMarkerLine(line) ==
    /\ StandaloneSearch(line).found
    /\ ~HasLiteral(line)
    /\ \E i \in 1..Len(AccentMarkers) :
          Lower(StandaloneSearch(line).token) = Tail(AccentMarkers[i][1])

\* the lines of the file before the pass
OrigLines == SplitLines(aorig.text)

\* in the lines O: line s is a standalone marker, lines s+1..k-1 hold no literal,
\* and lines k and k+1 both hold one
MarkerThenTwoLiterals(O, s, k) ==
    /\ 1 <= s /\ s < k /\ k + 1 <= Len(O)
    /\ HasLiteral(O[k])
    /\ HasLiteral(O[k + 1])
    /\ IsStandaloneMarkerLine(O[s])
    /\ \A j \in (s + 1)..(k - 1) : ~HasLiteral(O[j])

C3_BrightRgbaMarkerWins ==
    lpc = "done" =>
        \A b \in BaseNames :
            (Contains(lline, <<"accent:", b, "-bright", "-rgba">>)
                /\ RgbaSearch(lline).found) =>
                LET m == RgbaSearch(lline)
                IN  lout.line = SubSeq(lline, 1, m.a - 1)
                                    \o HexToRgba(ltheme[b \o "_bright"])
                                    \o SubSeq(lline, m.b + 1, Len(lline))

\* a run has gone through its four passes with the Theme of the run before it
SameThemeAgain == mpc \in {"palette", "done"} /\ mprev = Some(mres.theme)

\* C1: when main's four passes are run again with the Theme of the run before, the
\* second run lists no modified file and leaves every file of the tree as it was.
C1_SecondRunChangesNothing ==
    SameThemeAgain => (mupdated = <<>> /\ mtree = mstart.tree)

\* C5: as long as no bright override was passed in any run and the user wrote no
\* bright key into theme.toml, every run's resolved <base>_bright is
\* lighten(resolved <base>).
C5_BrightFollowsBase ==
    (mpc \in {"accent", "rounding", "layerrules", "floating", "palette", "done"}
        /\ ~mbright) =>
        \A k \in BrightKeys : mres.theme[k] = Lighten(mres.theme[BaseOf[k]]).v

\* the text the precedence rule selects for colour k from the command line and the
\* theme.toml of the run's start, when an override or a stored value supplies one
SelectedText(k) ==
    PyOr(mcli[CliColourDest[k]], Get(mstart.toml.acc, k))

NothingModified == mtree = mstart.tree /\ mtoml = mstart.toml

\* C6 as stated: when theme.toml is missing or a selected colour value is not
\* exactly six hex digits (with optional '#'), load_theme raises and the run
\* modifies no file.
C6_InexactValueIsFatal ==
    (mpc # "start"
        /\ \/ ~mstart.toml.exists
           \/ \E k \in AccentKeys :
                 SelectedText(k).some /\ ~SixHexDigits(SelectedText(k).v)) =>
        (mpc = "raised" /\ ~mres.ok /\ NothingModified)

\* C6 (amended): when theme.toml is missing or a selected colour value, once its
\* surrounding white space is stripped, is not six hex digits (with optional '#'),
\* load_theme raises, no Theme is produced and the run modifies neither the tree
\* nor theme.toml; a value that is six hex digits inside white space is accepted.
C6_InvalidValueIsFatal ==
    /\ (mpc # "start"
          /\ \/ ~mstart.toml.exists
             \/ \E k \in AccentKeys :
                   SelectedText(k).some /\ ~SixHexDigits(Strip(SelectedText(k).v))) =>
          (mpc = "raised" /\ ~mres.ok)
    /\ mpc = "raised" => NothingModified
    /\ mpc \in {"accent", "rounding", "layerrules", "floating", "palette", "done"} =>
          /\ mres.ok
          /\ \A k \in AccentKeys : SixHexDigits(mres.theme[k])

C6_Witness ==
    /\ mpc = "raised" /\ mruns = 2
    /\ mcli.accent = Some(ColourLong)
    /\ mstart.toml.exists /\ mstart.toml.wellFormed
    /\ "hyprland.conf" \in DOMAIN mtree

\* C9: theme.toml holds a [ui] section exactly when it held one before the first
\* run, and after a run that rewrote it its [accent] keys are the ten colours of
\* the resolved Theme.
C9_UiSectionInvariant ==
    /\ mtoml.exists => (mtoml.hasUi <=> mhadUi)
    /\ (mpc = "done" /\ ~mcli.skip_palette) =>
          /\ mtoml.exists /\ mtoml.wellFormed
          /\ DOMAIN mtoml.acc = AccentKeys
          /\ \A k \in AccentKeys : mtoml.acc[k] = mres.theme[k]
          /\ mtoml.hasUi => \A k \in UiKeys : mtoml.ui[k] = mres.theme[k]

C9_Witness ==
    /\ mpc = "done" /\ ~mcli.skip_palette /\ mruns = 2
    /\ ~mhadUi /\ ~mtoml.hasUi
    /\ mtoml # mstart.toml

\* the body of the first 'window#waybar > box' block of the stylesheet of a tree
BlockBody(tree) ==
    LET text == tree["waybar.css"].text
        m == BlockSearch(text)
    IN  SubSeq(text, m.a, m.b)

HasBlock(tree) == "waybar.css" \in DOMAIN tree /\ BlockSearch(tree["waybar.css"].text).found

\* the text before the body of the block and the text from its closing brace on
Outside(tree) ==
    LET text == tree["waybar.css"].text
        m == BlockSearch(text)
    IN  <<SubSeq(text, 1, m.a - 1), SubSeq(text, m.b + 1, Len(text))>>

HoldsAllMarkers(body) ==
    \A i \in 1..Len(FloatingMarkers) : Contains(body, <<FloatingMarkers[i]>>)

HoldsNoMarker(body) ==
    \A i \in 1..Len(FloatingMarkers) : ~Contains(body, <<FloatingMarkers[i]>>)

\* the declarations of the inputs that carry no floating marker
UntaggedDecls == {BgDecl, ColorDecl}

\* C8: a disabling run on a block that holds the three tagged declarations removes
\* them and leaves every other declaration of the block, and the text outside the
\* block, as it was.
C8_DisableRemovesOnlyTagged ==
    (wruns > 0 /\ ~wtheme.waybar_floating /\ HasBlock(wbefore)
        /\ HoldsAllMarkers(BlockBody(wbefore))) =>
        /\ HasBlock(wtree)
        /\ HoldsNoMarker(BlockBody(wtree))
        /\ Outside(wtree) = Outside(wbefore)
        /\ \A d \in UntaggedDecls :
              Contains(BlockBody(wbefore), d) => Contains(BlockBody(wtree), d)

\* the channels of a colour #RRGGBB start at these positions
ChannelAt == {2, 4, 6}

Dist(a, b) == IF a < b THEN b - a ELSE a - b

\* round(c + (255 - c) / 5): the integer nearest to (4 c + 255) / 5
Nearest(c) == CHOOSE r \in 0..(MaxChannel + 1) : 2 * Dist(5 * r, 4 * c + MaxChannel) < 5

\* C11: lighten maps every channel c of 0..255 to min(255, round(c + (255 - c) / 5));
\* the output channel is at least the input channel, at most 255, and 255 when the
\* input channel is 255.
C11_LightenMonotone ==
    (cpc \in {"lightened", "loaded"} /\ cnorm.ok) =>
        /\ Len(clight) = 7 /\ clight[1] = "#"
        /\ \A i \in ChannelAt :
              LET c == Channel(cnorm.v, i)
                  o == Channel(clight, i)
              IN  /\ IsHexDigit(clight[i]) /\ IsHexDigit(clight[i + 1])
                  /\ o = Min(MaxChannel, Nearest(c))
                  /\ o >= c
                  /\ o <= MaxChannel
                  /\ c = MaxChannel => o = MaxChannel

C11_Witness ==
    /\ cpc = "lightened"
    /\ cin = <<"#", "0", "2", "0", "0", "f", "f">>
    /\ clight = <<"#", "3", "5", "3", "3", "f", "f">>

\* C12: in both scripts a file is written, and listed as updated, exactly when one of
\* its lines differs after the pass: replace_first flags a line as changed only if
\* the line it returns differs from the line it was given.
C12_ChangeFlagTruthful ==
    /\ apc \in {"scan", "written", "untouched"} => (achanged <=> alines # OrigLines)
    /\ apc \in {"written", "untouched"} =>
          ((apc = "written") <=> (afile.text # aorig.text))

\* the entries of ACCENT_MARKERS whose token a line contains
InlineHits(line) == {i \in 1..Len(AccentMarkers) : Contains(line, AccentMarkers[i][1])}

\* the kind of literal the attribute `key` is written as
PatternOf(key) == IF EndsWithRgba(key) THEN "RGBA_PATTERN" ELSE "HEX_PATTERN"

\* the first literal of the given kind a line holds
FirstLiteral(pattern, line) ==
    LET m == PatternSearch(pattern, line) IN SubSeq(line, m.a, m.b)

\* C13: a processed line that holds an inline marker token and a literal of that
\* marker's kind is left with its first such literal equal to the inline marker's
\* resolved value, whatever standalone marker was pending when it was reached.
C13_InlineBeatsPending ==
    apc \in {"scan", "written", "untouched"} =>
        LET O == OrigLines
        IN  \A k \in 1..ai :
                LET hits == InlineHits(O[k])
                IN  hits # {} =>
                      LET key == AccentMarkers[SetMin(hits)][2]
                      IN  PatternSearch(PatternOf(key), O[k]).found =>
                            FirstLiteral(PatternOf(key), alines[k]) = GetAttr(atheme, key)

\* the tokens a line carries after "accent:", lower-cased
MarkerTokens(line) ==
    {Lower(SubSeq(line, j + 1, TokenEnd(line, j + 1))) :
        j \in {i \in 1..(Len(line) - 1) :
                  LowerChunk(line[i]) = "accent:" /\ IsTokenChunk(line[i + 1])}}

\* C14: the pending marker is empty when the scan of a file starts, it only ever holds
\* the token of a literal-free standalone marker line already scanned, and once a
\* line carrying "accent:<token>" has been processed it is empty or that line's token.
C14_PendingNeverLeaks ==
    apc = "scan" =>
        LET O == OrigLines
        IN  /\ ai = 0 => ~apending.some
            /\ apending.some =>
                  \E s \in 1..ai : /\ IsStandaloneMarkerLine(O[s])
                                   /\ Lower(StandaloneSearch(O[s]).token) = apending.v
            /\ (ai >= 1 /\ MarkerTokens(O[ai]) # {}) =>
                  (~apending.some \/ apending.v \in MarkerTokens(O[ai]))

\* the two lines are equal but for the first literal of the given kind in `old`
DiffersOnlyInFirst(pattern, old, new) ==
    LET m == PatternSearch(pattern, old)
    IN  /\ m.found
        /\ Len(new) = Len(old)
        /\ \A j \in 1..Len(old) : (j < m.a \/ j > m.b) => new[j] = old[j]

\* C15: apply_accent leaves a file as it was unless the file holds "accent:" and one of
\* its lines changed; a written file has as many lines (as str.splitlines() counts
\* them) as before, each line is either identical to the original or differs from it
\* only in its first literal of one kind, and the text ends with a newline exactly
\* when the original did.
C15_MarkerPassFrame ==
    /\ apc \in {"skipped", "untouched"} => afile = aorig
    /\ apc = "written" =>
          LET O == OrigLines
              N == SplitLines(afile.text)
          IN  /\ Contains(aorig.text, <<"accent:">>)
              /\ N # O
              /\ Len(N) = Len(O)
              /\ \A k \in 1..Len(O) :
                    \/ N[k] = O[k]
                    \/ DiffersOnlyInFirst("HEX_PATTERN", O[k], N[k])
                    \/ DiffersOnlyInFirst("RGBA_PATTERN", O[k], N[k])
              /\ EndsWithNewline(afile.text) <=> EndsWithNewline(aorig.text)
              /\ afile.suffix = aorig.suffix

\* a file without a final newline is written with one line rewritten and one kept
C15_Witness ==
    /\ apc = "written"
    /\ ~EndsWithNewline(aorig.text)
    /\ Len(OrigLines) >= 2
    /\ \E k \in 1..Len(OrigLines) : SplitLines(afile.text)[k] # OrigLines[k]
    /\ \E k \in 1..Len(OrigLines) : SplitLines(afile.text)[k] = OrigLines[k]

\* how many chunks of a text are the given one
RECURSIVE CountChunk(_, _)
CountChunk(text, c) ==
    IF text = <<>> THEN 0
    ELSE (IF text[1] = c THEN 1 ELSE 0) + CountChunk(Tail(text), c)

\* the three tagged declarations set_prop writes for a theme
ResolvedDeclarations(theme) ==
    {TaggedDeclaration("border-radius", <<ToString(theme.waybar_border_radius), "px">>,
                       FloatingMarkers[1]),
     TaggedDeclaration("padding", theme.waybar_padding, FloatingMarkers[2]),
     TaggedDeclaration("margin", theme.waybar_margin, FloatingMarkers[3])}

\* C16: after one or more runs that all enabled the floating style on a stylesheet
\* with a 'window#waybar > box' block, the block holds each floating marker once, on
\* a declaration with the resolved value, every untagged declaration the block held
\* at first is still there, and the text outside the block is as it was.
C16_EnablePreservesUntagged ==
    (wruns > 0 /\ wallOn /\ HasBlock(wstart)) =>
        /\ HasBlock(wtree)
        /\ \A i \in 1..Len(FloatingMarkers) :
              CountChunk(BlockBody(wtree), FloatingMarkers[i]) = 1
        /\ \A d \in ResolvedDeclarations(wtheme) : Contains(BlockBody(wtree), d)
        /\ Outside(wtree) = Outside(wstart)
        /\ \A d \in UntaggedDecls :
              Contains(BlockBody(wstart), d) => Contains(BlockBody(wtree), d)

\* C17: when the run before this one went through update_theme_file with Theme T, a
\* run without any override resolves every colour field and every UI field to the
\* value it has in T, whether or not theme.toml held a [ui] table.
C17_WriteReadFixpoint ==
    (mwrote /\ mpc # "start" /\ mcli = NoCli) =>
        /\ mres.ok
        /\ \A k \in AccentKeys \cup UiKeys : mres.theme[k] = mprev.v[k]

=============================================================================
